---------------------------- MODULE Spec2Model ----------------------------
(***************************************************************************)
(* A model of main.py of pdf-png-converter: the natural sort of file       *)
(* names, the folder scan and mode selection of the main block, the two    *)
(* conversions with their per-unit error handling, the choice of the       *)
(* output name, the summary line and the exit status.                      *)
(*                                                                         *)
(* A file name is a sequence of characters; a character is a one-symbol    *)
(* string.  SUP2 stands for U+00B2 (superscript two), a character for      *)
(* which str.isdigit() is true, which the pattern \d does not match and    *)
(* which int() rejects.  BSL is the backslash.                             *)
(***************************************************************************)
EXTENDS Integers, Sequences, FiniteSets, TLC

(* ------------------------------------------------------------------ *)
(* Bounds of the model                                                 *)
(* ------------------------------------------------------------------ *)
\* Largest number of directory entries of a folder of Spec.
MaxFiles == 3
\* Largest number of .pdf / .png files of a folder of SpecMode.
MaxPdf == 2
MaxPng == 5
\* Largest number of pages a document is seen to have.
MaxPages == 2

(* ------------------------------------------------------------------ *)
(* Characters                                                          *)
(* ------------------------------------------------------------------ *)
SUP2 == "sup2"
BSL == "\\"

\* The characters of the model in code point order.
CodeOrder ==
  << "-", ".", "0", "1", "2", "3", "4", "5", "6", "7", "8", "9",
     "A", "D", "F", "G", "N", "P", "S", BSL, "_",
     "a", "b", "d", "e", "f", "g", "i", "l", "n", "p", "s", "t", "x", SUP2 >>

Ord(c) == CHOOSE i \in 1..Len(CodeOrder) : CodeOrder[i] = c

DecDigits == << "0", "1", "2", "3", "4", "5", "6", "7", "8", "9" >>

\* A character the pattern \d matches.
IsReDigit(c) == \E i \in 1..10 : DecDigits[i] = c

\* str.isdigit() of one character: the decimal digits and SUP2.
IsDigitChar(c) == IsReDigit(c) \/ c = SUP2

DigitVal(c) == (CHOOSE i \in 1..10 : DecDigits[i] = c) - 1

UpperChars == << "A", "D", "F", "G", "N", "P", "S" >>
LowerChars == << "a", "d", "f", "g", "n", "p", "s" >>

\* str.lower() of one character.
LowerChar(c) ==
  IF \E i \in 1..Len(UpperChars) : UpperChars[i] = c
  THEN LowerChars[CHOOSE i \in 1..Len(UpperChars) : UpperChars[i] = c]
  ELSE c

Lower(s) == [i \in 1..Len(s) |-> LowerChar(s[i])]

\* str(n) of a natural number: its decimal digits.
RECURSIVE ToStr(_)
ToStr(n) ==
  IF n < 10 THEN << DecDigits[n + 1] >>
  ELSE ToStr(n \div 10) \o << DecDigits[(n % 10) + 1] >>

\* int(s) of a run of decimal digits.
RECURSIVE IntOf(_)
IntOf(s) ==
  IF s = << >> THEN 0
  ELSE 10 * IntOf(SubSeq(s, 1, Len(s) - 1)) + DigitVal(s[Len(s)])

\* os.path.splitext: the extension starts at the last dot, unless only dots
\* precede it.
SplitExt(s) ==
  LET dots == {i \in 1..Len(s) : s[i] = "."}
      last == CHOOSE i \in dots : \A j \in dots : j <= i
  IN IF dots # {} /\ (\E j \in 1..(last - 1) : s[j] # ".")
     THEN << SubSeq(s, 1, last - 1), SubSeq(s, last, Len(s)) >>
     ELSE << s, << >> >>

BaseOf(s) == SplitExt(s)[1]
ExtOf(s) == SplitExt(s)[2]

(* ------------------------------------------------------------------ *)
(* natural_sort_key                                                    *)
(* ------------------------------------------------------------------ *)
\* The end of the run of characters that starts at i and whose members all
\* satisfy (digit = TRUE) or all fail (digit = FALSE) the pattern \d.
RECURSIVE RunEnd(_, _, _)
RunEnd(s, i, digit) ==
  IF i > Len(s) \/ (IsReDigit(s[i]) # digit) THEN i - 1
  ELSE RunEnd(s, i + 1, digit)

\* re.split(r'(\d+)', s) from position i, where a text piece starts: text,
\* digits, text, ..., text; the first and the last piece may be empty.
RECURSIVE ReSplitFrom(_, _)
ReSplitFrom(s, i) ==
  LET j == RunEnd(s, i, FALSE)
      k == RunEnd(s, j + 1, TRUE)
  IN IF j >= Len(s) THEN << SubSeq(s, i, j) >>
     ELSE << SubSeq(s, i, j), SubSeq(s, j + 1, k) >> \o ReSplitFrom(s, k + 1)

ReSplit(s) == ReSplitFrom(s, 1)

\* text.isdigit()
IsDigitStr(t) == t # << >> /\ \A i \in 1..Len(t) : IsDigitChar(t[i])

\* int(text) raises ValueError: some character is no decimal digit.
IntRaises(t) == \E i \in 1..Len(t) : ~IsReDigit(t[i])

\* natural_sort_key(s) raises: a piece passes isdigit() and int() rejects it.
KeyRaises(s) ==
  \E i \in 1..Len(ReSplit(s)) : IsDigitStr(ReSplit(s)[i]) /\ IntRaises(ReSplit(s)[i])

KeyToken(t) ==
  IF IsDigitStr(t) THEN [num |-> TRUE, val |-> IntOf(t), txt |-> << >>]
  ELSE [num |-> FALSE, val |-> 0, txt |-> Lower(t)]

\* natural_sort_key(s), where it does not raise.
natural_sort_key(s) == [i \in 1..Len(ReSplit(s)) |-> KeyToken(ReSplit(s)[i])]

\* str < str: by code points, a proper prefix first.
RECURSIVE StrLess(_, _)
StrLess(a, b) ==
  IF b = << >> THEN FALSE
  ELSE IF a = << >> THEN TRUE
  ELSE IF a[1] # b[1] THEN Ord(a[1]) < Ord(b[1])
  ELSE StrLess(Tail(a), Tail(b))

\* Two key elements at the same index are of the same type (the split
\* alternates text, digits, text, ... from a text piece), so < never meets
\* an int and a str.
TokLess(x, y) == IF x.num THEN x.val < y.val ELSE StrLess(x.txt, y.txt)

\* list < list
RECURSIVE KeyLess(_, _)
KeyLess(a, b) ==
  IF b = << >> THEN FALSE
  ELSE IF a = << >> THEN TRUE
  ELSE IF a[1] # b[1] THEN TokLess(a[1], b[1])
  ELSE KeyLess(Tail(a), Tail(b))

\* x put into the sorted sequence s behind every element that is not greater.
RECURSIVE InsertSorted(_, _)
InsertSorted(x, s) ==
  IF s = << >> THEN << x >>
  ELSE IF KeyLess(natural_sort_key(x), natural_sort_key(s[1])) THEN << x >> \o s
  ELSE << s[1] >> \o InsertSorted(x, Tail(s))

\* sorted(s, key=natural_sort_key): a stable sort.
RECURSIVE StableSort(_)
StableSort(s) ==
  IF s = << >> THEN << >>
  ELSE InsertSorted(s[Len(s)], StableSort(SubSeq(s, 1, Len(s) - 1)))

\* Lines 160-168: the sorted list, or the list as scanned when the sort raises.
ResolveOrder(unsorted) ==
  IF \E i \in 1..Len(unsorted) : KeyRaises(unsorted[i]) THEN unsorted
  ELSE StableSort(unsorted)

(* ------------------------------------------------------------------ *)
(* File names of the model                                             *)
(* ------------------------------------------------------------------ *)
slide == << "s", "l", "i", "d", "e" >>
DotPdf == << ".", "p", "d", "f" >>
DotPDF == << ".", "P", "D", "F" >>
DotPng == << ".", "p", "n", "g" >>
DotTxt == << ".", "t", "x", "t" >>

A_pdf == << "a" >> \o DotPdf
A_PDF == << "a" >> \o DotPDF
B_pdf == << "b" >> \o DotPdf
Slide_1 == slide \o << "_", "1" >> \o DotPng
Slide_2 == slide \o << "_", "2" >> \o DotPng
Slide_10 == slide \o << "_", "1", "0" >> \o DotPng
Slide_01 == slide \o << "_", "0", "1" >> \o DotPng
Sup_2 == << SUP2, "2" >> \o DotPng
Sup_10 == << SUP2, "1", "0" >> \o DotPng
Bsl_d == << BSL, "d" >> \o DotPng
One_png == << "1" >> \o DotPng
X_png == << "x" >> \o DotPng
N_txt == << "n" >> \o DotTxt
D_png == << "d" >> \o DotPng

File(n) == [name |-> n, isfile |-> TRUE]
Dir(n) == [name |-> n, isfile |-> FALSE]

\* The directory entries the folders of Spec are made of.
Universe ==
  { File(A_pdf), File(A_PDF), File(Slide_1), File(Slide_2), File(Slide_10),
    File(Slide_01), File(One_png), File(N_txt), Dir(D_png) }

\* The directory entries the folders of SpecNames are made of: names with a
\* superscript digit or a backslash among plain ones.
OddUniverse ==
  { File(A_pdf), File(Slide_1), File(Slide_10), File(Sup_2), File(Sup_10),
    File(Bsl_d) }

\* The documents and images the folders of SpecMode are made of.
PdfList == << A_pdf, A_PDF, B_pdf >>
PngList == << Slide_1, Slide_10, Slide_2, One_png, X_png, Slide_01 >>

Min(a, b) == IF a < b THEN a ELSE b

ModeFolder(d, p) ==
  {File(PdfList[i]) : i \in 1..Min(d, Len(PdfList))}
    \cup {File(PngList[i]) : i \in 1..Min(p, Len(PngList))}

\* Entries that are neither a document nor an image: a text file and a
\* directory with an image's name.
Others == {File(N_txt), Dir(D_png)}

\* Paths, relative to ./output, that an earlier run may have left behind.
Old_pdf == slide \o << "_", "1" >> \o DotPdf
Old_pdf_1 == slide \o << "_", "1", "_", "1" >> \o DotPdf
Old_pdf_2 == slide \o << "_", "1", "_", "2" >> \o DotPdf
Old_png == << "a", "_", "p", "n", "g", "/", "a", "_", "1" >> \o DotPng

\* The contents of ./output a run may start with.
ExistingSets ==
  { {}, {Old_pdf}, {Old_pdf, Old_pdf_1}, {Old_pdf, Old_pdf_2},
    {Old_pdf, Old_pdf_1, Old_pdf_2}, {Old_png} }

(* ------------------------------------------------------------------ *)
(* The pieces of the main block                                        *)
(* ------------------------------------------------------------------ *)
\* Every order in which the members of S can be listed.
RECURSIVE Orders(_)
Orders(S) ==
  IF S = {} THEN {<< >>}
  ELSE UNION {{<< x >> \o p : p \in Orders(S \ {x})} : x \in S}

\* Lines 119-127: the regular files of the folder with the given lower-cased
\* extension.
FilesWithExt(dir, ext) ==
  {e.name : e \in {x \in dir : x.isfile /\ Lower(ExtOf(x.name)) = ext}}

\* The branch with one image accepted as a sequence to combine.
SelectModeOneImage(num_pdf, num_png) ==
  IF num_pdf >= 1 /\ num_png = 0 THEN "PDF -> PNG"
  ELSE IF num_png >= 1 /\ num_pdf = 0 THEN "PNG -> PDF"
  ELSE "Invalid"

\* Lines 139, 152, 191: the branch taken.
SelectMode(num_pdf, num_png) ==
  IF num_pdf >= 1 /\ num_png = 0 THEN "PDF -> PNG"
  ELSE IF num_png > 1 /\ num_pdf = 0 THEN "PNG -> PDF"
  ELSE "Invalid"

\* t matches [_-]?\\d+ as a whole: in the raw string the doubled backslash is
\* a literal backslash, followed by one or more letters d.
MatchesPattern(t) ==
  LET r == IF t # << >> /\ t[1] \in {"_", "-"} THEN Tail(t) ELSE t
  IN Len(r) >= 2 /\ r[1] = BSL /\ \A i \in 2..Len(r) : r[i] = "d"

\* re.sub(r'[_-]?\\d+$', '', s): the leftmost match that ends the string is
\* removed.
SubPattern(s) ==
  LET starts == {i \in 1..Len(s) : MatchesPattern(SubSeq(s, i, Len(s)))}
      first == CHOOSE i \in starts : \A j \in starts : i <= j
  IN IF starts = {} THEN s ELSE SubSeq(s, 1, first - 1)

\* Lines 171-175.
OutputPrefix(first_image_name) ==
  LET prefix == SubPattern(BaseOf(first_image_name))
  IN IF prefix = << >> THEN << "c", "o", "m", "b", "i", "n", "e", "d" >> ELSE prefix

\* The candidate named with count already incremented.
CandidatePathIncrementedFirst(output_base_name, n) ==
  output_base_name \o << "_" >> \o ToStr(n + 1) \o DotPdf

\* Line 183: f"{output_base_name}_{count}.pdf"
CandidatePath(output_base_name, n) ==
  output_base_name \o << "_" >> \o ToStr(n) \o DotPdf

\* Lines 32-33 and 146: output/<base>_png/<base>_<page_num + 1>.png
PagePath(pdf_name, page) ==
  BaseOf(pdf_name) \o << "_", "p", "n", "g", "/" >>
    \o BaseOf(pdf_name) \o << "_" >> \o ToStr(page) \o DotPng

\* A page without an image.
Blank == << >>

\* Lines 50-59: the document after one image: the image on a new page, no
\* new page (the error came before new_page returned), or an empty page
\* (insert_image raised after new_page).
PageAdded(pages, img_path, outcome) ==
  CASE outcome = "placed" -> Append(pages, img_path)
    [] outcome = "no_page" -> pages
    [] outcome = "blank_page" -> Append(pages, Blank)

\* Lines 209-216.
SummaryLine(processed, overall) ==
  IF processed
  THEN IF overall THEN "Processing completed successfully."
       ELSE "Processing completed, but some errors occurred."
  ELSE "No processing was performed due to errors or invalid folder content."

(* ------------------------------------------------------------------ *)
(* State                                                               *)
(* ------------------------------------------------------------------ *)
VARIABLES
  pc,                  \* the position of the main block
  folder,              \* the entries of the target folder
  fs,                  \* the paths that exist under ./output
  error,               \* the pre-flight error reported, or "none"
  pdf_files,           \* line 115
  png_files,           \* line 116
  mode,                \* the branch of lines 139-205 taken, or "unset"
  processed_something, \* line 134
  overall_success,     \* line 133
  idx,                 \* the position of the running for loop (1-based)
  image_paths,         \* line 161 / 168
  output_prefix,       \* line 173
  output_pdf_path,     \* line 179 / 183
  count,               \* line 180
  doc,                 \* the pages of the document being composed (line 47)
  success,             \* what the last conversion returned, or "unset"
  saved,               \* the pages doc.save wrote to output_pdf_path
  calls,               \* how often convert_pdf_to_png / convert_png_to_pdf ran
  skipped,             \* the files whose processing reported an error, in order
  clobbered,           \* the paths written where a file already was
  summary,             \* the summary line printed, or "unset"
  exit_status          \* the exit status of the process, -1 while it runs

vars ==
  << pc, folder, fs, error, pdf_files, png_files, mode, processed_something,
     overall_success, idx, image_paths, output_prefix, output_pdf_path, count,
     doc, success, saved, calls, skipped, clobbered, summary, exit_status >>

\* The variables a pre-flight check leaves alone.
run_vars ==
  << folder, fs, pdf_files, png_files, mode, processed_something,
     overall_success, idx, image_paths, output_prefix, output_pdf_path, count,
     doc, success, saved, calls, skipped, clobbered, summary, exit_status >>

\* The variables of the PNG -> PDF branch.
png_vars == << image_paths, output_prefix, output_pdf_path, count, doc, saved >>

InitRun ==
  /\ pc = "check_args"
  /\ error = "none"
  /\ pdf_files = << >>
  /\ png_files = << >>
  /\ mode = "unset"
  /\ processed_something = FALSE
  /\ overall_success = TRUE
  /\ idx = 1
  /\ image_paths = << >>
  /\ output_prefix = << >>
  /\ output_pdf_path = << >>
  /\ count = 0
  /\ doc = << >>
  /\ success = "unset"
  /\ saved = << >>
  /\ calls = [pdf |-> 0, png |-> 0]
  /\ skipped = << >>
  /\ clobbered = {}
  /\ summary = "unset"
  /\ exit_status = -1

\* A folder of at most MaxFiles entries and an output directory an earlier
\* run may have filled.
Init ==
  /\ folder \in {S \in SUBSET Universe : Cardinality(S) <= MaxFiles}
  /\ fs \in ExistingSets
  /\ InitRun

\* A folder of at most MaxFiles entries with unusual names among them.
InitNames ==
  /\ folder \in {S \in SUBSET OddUniverse : Cardinality(S) <= MaxFiles}
  /\ fs \in ExistingSets
  /\ InitRun

\* A folder of up to MaxPdf documents and MaxPng images, alone or beside
\* entries of other kinds.
InitMode ==
  /\ folder \in {ModeFolder(d, p) \cup x :
                   d \in 0..MaxPdf, p \in 0..MaxPng, x \in {{}, Others}}
  /\ fs \in ExistingSets
  /\ InitRun

(* ------------------------------------------------------------------ *)
(* The main block, lines 84-220                                        *)
(* ------------------------------------------------------------------ *)
\* Lines 85-96: len(sys.argv) != 2.
CheckArgs ==
  /\ pc = "check_args"
  /\ \E argc_ok \in BOOLEAN :
       IF argc_ok THEN pc' = "check_dir" /\ error' = error
       ELSE pc' = "abort" /\ error' = "usage"
  /\ UNCHANGED run_vars

\* Lines 100-103: os.path.isdir(target_folder).
CheckDir ==
  /\ pc = "check_dir"
  /\ \E isdir \in BOOLEAN :
       IF isdir THEN pc' = "make_output" /\ error' = error
       ELSE pc' = "abort" /\ error' = "not a directory"
  /\ UNCHANGED run_vars

\* Lines 106-113: os.makedirs(output_base_dir, exist_ok=True).
MakeOutputDir ==
  /\ pc = "make_output"
  /\ \E made \in BOOLEAN :
       IF made THEN pc' = "scan" /\ error' = error
       ELSE pc' = "abort" /\ error' = "output directory"
  /\ UNCHANGED run_vars

\* Lines 115-127: os.listdir in whatever order the system lists the entries;
\* the two lists keep that order.
Scan ==
  /\ pc = "scan"
  /\ \E pdfs \in Orders(FilesWithExt(folder, DotPdf)),
        pngs \in Orders(FilesWithExt(folder, DotPng)) :
       /\ pdf_files' = pdfs
       /\ png_files' = pngs
  /\ pc' = "select"
  /\ UNCHANGED << folder, fs, error, mode, processed_something, overall_success,
                  idx, png_vars, success, calls, skipped, clobbered, summary,
                  exit_status >>

\* Lines 128-131: the listing raises.
ScanFails ==
  /\ pc = "scan"
  /\ pc' = "abort"
  /\ error' = "read directory"
  /\ UNCHANGED run_vars

\* Lines 133-142, 152-155, 191-205: the branch, and its two flags.
Select ==
  /\ pc = "select"
  /\ mode' = SelectMode(Len(pdf_files), Len(png_files))
  /\ processed_something' = (mode' # "Invalid")
  /\ overall_success' = (mode' # "Invalid")
  /\ pc' = CASE mode' = "PDF -> PNG" -> "pdf_loop"
             [] mode' = "PNG -> PDF" -> "sort"
             [] OTHER -> "summary"
  /\ idx' = 1
  /\ UNCHANGED << folder, fs, error, pdf_files, png_files, png_vars, success,
                  calls, skipped, clobbered, summary, exit_status >>

\* Lines 143-150 with convert_pdf_to_png, lines 17-41, for pdf_files[idx]: the
\* pages 1..written are saved, each over whatever was at its path, and the
\* call returns True (every page of the document was saved) or False (an
\* exception: opening, makedirs, rendering or saving raised).
ConvertPdf ==
  /\ pc = "pdf_loop"
  /\ \E written \in 0..MaxPages, ok \in BOOLEAN :
       LET pdf_path == pdf_files[idx]
           paths == {PagePath(pdf_path, n) : n \in 1..written}
       IN /\ fs' = fs \cup paths
          /\ clobbered' = clobbered \cup (paths \cap fs)
          /\ success' = IF ok THEN "True" ELSE "False"
          /\ overall_success' = (overall_success /\ ok)
          /\ skipped' = IF ok THEN skipped ELSE Append(skipped, pdf_path)
  /\ calls' = [calls EXCEPT !.pdf = @ + 1]
  /\ idx' = idx + 1
  /\ pc' = IF idx = Len(pdf_files) THEN "summary" ELSE "pdf_loop"
  /\ UNCHANGED << folder, error, pdf_files, png_files, mode,
                  processed_something, png_vars, summary, exit_status >>

\* Lines 156-168.  Nothing reads png_files (or its alias
\* image_paths_unsorted) after the sort; the model clears it, so that runs
\* that differ only in the order of the listing meet again here.
SortImages ==
  /\ pc = "sort"
  /\ image_paths' = ResolveOrder(png_files)
  /\ png_files' = << >>
  /\ pc' = "name"
  /\ UNCHANGED << folder, fs, error, pdf_files, mode, processed_something,
                  overall_success, idx, output_prefix, output_pdf_path, count,
                  doc, success, saved, calls, skipped, clobbered, summary,
                  exit_status >>

\* Lines 171-180.
NameOutput ==
  /\ pc = "name"
  /\ output_prefix' = OutputPrefix(image_paths[1])
  /\ output_pdf_path' = output_prefix' \o DotPdf
  /\ count' = 1
  /\ pc' = "conflict"
  /\ UNCHANGED << folder, fs, error, pdf_files, png_files, mode,
                  processed_something, overall_success, idx, image_paths, doc,
                  success, saved, calls, skipped, clobbered, summary,
                  exit_status >>

\* Lines 182-184: one turn of the while loop.
ConflictStep ==
  /\ pc = "conflict"
  /\ output_pdf_path \in fs
  /\ output_pdf_path' = CandidatePath(output_prefix, count)
  /\ count' = count + 1
  /\ UNCHANGED << pc, folder, fs, error, pdf_files, png_files, mode,
                  processed_something, overall_success, idx, image_paths,
                  output_prefix, doc, success, saved, calls, skipped, clobbered,
                  summary, exit_status >>

\* Lines 182, 187, 46-47: the loop ends, convert_png_to_pdf is entered.
ConflictDone ==
  /\ pc = "conflict"
  /\ output_pdf_path \notin fs
  /\ calls' = [calls EXCEPT !.png = @ + 1]
  /\ doc' = << >>
  /\ idx' = 1
  /\ pc' = "png_loop"
  /\ UNCHANGED << folder, fs, error, pdf_files, png_files, mode,
                  processed_something, overall_success, image_paths,
                  output_prefix, output_pdf_path, count, success, saved, skipped,
                  clobbered, summary, exit_status >>

\* Lines 48-61: one turn of the for loop.
PlaceImage ==
  /\ pc = "png_loop"
  /\ \E outcome \in {"placed", "no_page", "blank_page"} :
       /\ doc' = PageAdded(doc, image_paths[idx], outcome)
       /\ skipped' = IF outcome = "placed" THEN skipped
                     ELSE Append(skipped, image_paths[idx])
  /\ idx' = idx + 1
  /\ pc' = IF idx = Len(image_paths) THEN "png_save" ELSE "png_loop"
  /\ UNCHANGED << folder, fs, error, pdf_files, png_files, mode,
                  processed_something, overall_success, image_paths,
                  output_prefix, output_pdf_path, count, success, saved, calls,
                  clobbered, summary, exit_status >>

\* Lines 63-67 and 188-189: the document has a page and is saved.
SavePdf ==
  /\ pc = "png_save"
  /\ Len(doc) > 0
  /\ fs' = fs \cup {output_pdf_path}
  /\ clobbered' = clobbered \cup ({output_pdf_path} \cap fs)
  /\ saved' = doc
  /\ success' = "True"
  /\ pc' = "summary"
  /\ UNCHANGED << folder, error, pdf_files, png_files, mode,
                  processed_something, overall_success, idx, image_paths,
                  output_prefix, output_pdf_path, count, doc, calls, skipped,
                  summary, exit_status >>

\* Lines 64, 73-81 and 188-189: doc.save raises; the file may have been
\* created before it did.
SaveFails ==
  /\ pc = "png_save"
  /\ Len(doc) > 0
  /\ \E created \in BOOLEAN :
       /\ fs' = IF created THEN fs \cup {output_pdf_path} ELSE fs
       /\ clobbered' = IF created THEN clobbered \cup ({output_pdf_path} \cap fs)
                       ELSE clobbered
  /\ success' = "False"
  /\ overall_success' = FALSE
  /\ pc' = "summary"
  /\ UNCHANGED << folder, error, pdf_files, png_files, mode,
                  processed_something, idx, png_vars, calls, skipped, summary,
                  exit_status >>

\* Lines 68-71 and 188-189: the document has no page.
NoPages ==
  /\ pc = "png_save"
  /\ Len(doc) = 0
  /\ success' = "False"
  /\ overall_success' = FALSE
  /\ pc' = "summary"
  /\ UNCHANGED << folder, fs, error, pdf_files, png_files, mode,
                  processed_something, idx, png_vars, calls, skipped, clobbered,
                  summary, exit_status >>

\* Lines 207-218.
Summarize ==
  /\ pc = "summary"
  /\ summary' = SummaryLine(processed_something, overall_success)
  /\ pc' = "prompt"
  /\ UNCHANGED << folder, fs, error, pdf_files, png_files, mode,
                  processed_something, overall_success, idx, png_vars, success,
                  calls, skipped, clobbered, exit_status >>

\* Line 220: input() returns and the script ends, or input() raises EOFError
\* (standard input is closed), which nothing catches.
Prompt ==
  /\ pc = "prompt"
  /\ \E eof \in BOOLEAN : exit_status' = IF eof THEN 1 ELSE 0
  /\ pc' = "exited"
  /\ UNCHANGED << folder, fs, error, pdf_files, png_files, mode,
                  processed_something, overall_success, idx, png_vars, success,
                  calls, skipped, clobbered, summary >>

\* Lines 95-96, 102-103, 112-113, 130-131: input() and sys.exit(1); an
\* EOFError of input() ends the process with status 1 as well.
Abort ==
  /\ pc = "abort"
  /\ exit_status' = 1
  /\ pc' = "exited"
  /\ UNCHANGED << folder, fs, error, pdf_files, png_files, mode,
                  processed_something, overall_success, idx, png_vars, success,
                  calls, skipped, clobbered, summary >>

Next ==
  \/ CheckArgs
  \/ CheckDir
  \/ MakeOutputDir
  \/ Scan
  \/ ScanFails
  \/ Select
  \/ ConvertPdf
  \/ SortImages
  \/ NameOutput
  \/ ConflictStep
  \/ ConflictDone
  \/ PlaceImage
  \/ SavePdf
  \/ SaveFails
  \/ NoPages
  \/ Summarize
  \/ Prompt
  \/ Abort

Spec == Init /\ [][Next]_vars

SpecMode == InitMode /\ [][Next]_vars

SpecNames == InitNames /\ [][Next]_vars

(* ------------------------------------------------------------------ *)
(* Properties                                                          *)
(* ------------------------------------------------------------------ *)
Range(s) == {s[i] : i \in 1..Len(s)}

\* The number of regular files of the folder that are documents / images.
DocCount ==
  Cardinality({e \in folder : e.isfile /\ ExtOf(e.name) \in {DotPdf, DotPDF}})
ImageCount ==
  Cardinality({e \in folder : e.isfile /\ ExtOf(e.name) = DotPng})

ExpectedMode(d, p) ==
  IF d >= 1 /\ p = 0 THEN "PDF -> PNG"
  ELSE IF d = 0 /\ p >= 2 THEN "PNG -> PDF"
  ELSE "Invalid"

\* C1: once the branch is taken, the mode is the one the table gives for the
\* counts (d, p) of documents and images in the folder: DocumentToImages for
\* d >= 1 and p = 0, ImagesToDocument for d = 0 and p >= 2, Invalid otherwise;
\* in Invalid mode no conversion is ever called, and a DocumentToImages run
\* that has ended has converted every document found.
C1_ModeByCounts ==
  mode # "unset" =>
    /\ mode = ExpectedMode(DocCount, ImageCount)
    /\ (mode = "Invalid" => calls.pdf = 0 /\ calls.png = 0)
    /\ (mode = "PDF -> PNG" => calls.png = 0 /\ calls.pdf <= DocCount)
    /\ (mode = "PNG -> PDF" => calls.pdf = 0 /\ calls.png <= 1)
    /\ (mode = "PDF -> PNG" /\ pc = "exited" => calls.pdf = DocCount)

\* A folder of five images and no document has run as ImagesToDocument.
C1_Witness ==
  /\ pc = "exited"
  /\ DocCount = 0
  /\ ImageCount = 5
  /\ mode = "PNG -> PDF"
  /\ calls.png = 1

AllDecimal(s) == s # << >> /\ \A i \in 1..Len(s) : IsReDigit(s[i])

\* a and b are the same text around one run of decimal digits each, and the
\* run of a is the smaller number.
SmallerInOneRun(a, b) ==
  \E i \in 1..Len(a), ja \in 1..Len(a), jb \in 1..Len(b) :
    /\ i <= ja /\ i <= jb
    /\ SubSeq(a, 1, i - 1) = SubSeq(b, 1, i - 1)
    /\ SubSeq(a, ja + 1, Len(a)) = SubSeq(b, jb + 1, Len(b))
    /\ AllDecimal(SubSeq(a, i, ja)) /\ AllDecimal(SubSeq(b, i, jb))
    /\ (i = 1 \/ ~IsReDigit(a[i - 1]))
    /\ (ja = Len(a) \/ ~IsReDigit(a[ja + 1]))
    /\ IntOf(SubSeq(a, i, ja)) < IntOf(SubSeq(b, i, jb))

\* C2: in the resolved order, of two names that differ only in a numeric run
\* the one with the smaller number comes first.
C2_SmallerNumberFirst ==
  \A i, j \in 1..Len(image_paths) :
    SmallerInOneRun(image_paths[i], image_paths[j]) => i < j

\* The end of s from its last run of decimal digits on, with one "_" or "-"
\* before the run, taken off.
StripNumber(s) ==
  LET starts == {i \in 1..Len(s) : AllDecimal(SubSeq(s, i, Len(s)))}
      first == CHOOSE i \in starts : \A j \in starts : i <= j
  IN IF starts = {} THEN s
     ELSE IF first > 1 /\ s[first - 1] \in {"_", "-"} THEN SubSeq(s, 1, first - 2)
     ELSE SubSeq(s, 1, first - 1)

\* C3: the base name of the output document is the first resolved name
\* without its extension and without a trailing number (with one "_" or "-"
\* before it), or "combined" when nothing is left.
C3_PrefixWithoutNumber ==
  output_prefix # << >> =>
    output_prefix =
      IF StripNumber(BaseOf(image_paths[1])) = << >>
      THEN << "c", "o", "m", "b", "i", "n", "e", "d" >>
      ELSE StripNumber(BaseOf(image_paths[1]))

\* The images no error message named, in resolved order.
Survivors == SelectSeq(image_paths, LAMBDA n : n \notin Range(skipped))

\* C4: the pages of a written document are the images that were placed, one
\* page each, in resolved order; a skipped image leaves no page.
C4_PagesAreSurvivors ==
  (mode = "PNG -> PDF" /\ success = "True") => saved = Survivors

\* C5: once convert_png_to_pdf has returned, the output file exists only if
\* an image was placed; when every image failed the call returned False and
\* there is no output file.
C5_NoOutputWithoutPlacement ==
  (mode = "PNG -> PDF" /\ success # "unset") =>
    /\ (output_pdf_path \in fs => Survivors # << >>)
    /\ (Survivors = << >> => success = "False" /\ output_pdf_path \notin fs)

\* C6: a run that found no valid mode, and a run a pre-flight error aborted,
\* end with a non-zero exit status.
C6_NonZeroExit ==
  (pc = "exited" /\ (mode = "Invalid" \/ error # "none")) => exit_status # 0

\* C7: with a valid mode the summary reports errors whenever a document or an
\* image failed or was skipped, and success only when none did and the last
\* conversion returned True; without a valid mode it is the no-processing
\* line.
C7_SummaryTellsFailures ==
  summary # "unset" =>
    IF mode = "Invalid"
    THEN summary = "No processing was performed due to errors or invalid folder content."
    ELSE /\ skipped # << >> =>
              summary = "Processing completed, but some errors occurred."
         /\ summary = "Processing completed successfully." => skipped = << >>
         /\ (skipped = << >> /\ success = "True") =>
              summary = "Processing completed successfully."

\* The k-th name of the sequence <prefix>.pdf, <prefix>_1.pdf, <prefix>_2.pdf, ...
NthTarget(k) ==
  IF k = 0 THEN output_prefix \o DotPdf
  ELSE output_prefix \o << "_" >> \o ToStr(k) \o DotPdf

\* C8: while the loop searches, the path is the name number count - 1 of the
\* sequence, every earlier name exists, and count is at most one more than the
\* number of existing files (the loop ends); the path the conversion is given
\* is the first name of the sequence that does not exist.
C8_FirstFreeTarget ==
  /\ pc = "conflict" =>
       /\ count >= 1
       /\ count <= Cardinality(fs) + 1
       /\ output_pdf_path = NthTarget(count - 1)
       /\ \A j \in 0..(count - 2) : NthTarget(j) \in fs
  /\ pc \in {"png_loop", "png_save"} =>
       /\ output_pdf_path \notin fs
       /\ \E k \in 0..Cardinality(fs) :
            /\ output_pdf_path = NthTarget(k)
            /\ \A j \in 0..(k - 1) : NthTarget(j) \in fs

\* <prefix>.pdf and <prefix>_1.pdf exist and the conversion got <prefix>_2.pdf.
C8_Witness ==
  /\ pc = "png_loop"
  /\ NthTarget(0) \in fs
  /\ NthTarget(1) \in fs
  /\ output_pdf_path = NthTarget(2)

\* C9: no file is written to a path where a file already was.
C9_NoOverwrite == clobbered = {}

\* C10: no two images of the folder have the same sort key, and the resolved
\* order is the same for every order in which the folder can be listed.
C10_OrderIndependent ==
  image_paths # << >> =>
    /\ \A a, b \in Range(image_paths) :
         (a # b /\ ~KeyRaises(a) /\ ~KeyRaises(b))
           => natural_sort_key(a) # natural_sort_key(b)
    /\ \A o \in Orders(FilesWithExt(folder, DotPng)) :
         ResolveOrder(o) = image_paths

=============================================================================
